---- MODULE Spec2Model ----
(***************************************************************************)
(* The BACKLIGHT module of Clight (src/src/modules/backlight.c): its three *)
(* behaviours (waiting_init, receive, receive_paused), the pause-reason    *)
(* bitmask, the capture timer and the capture/actuation pipeline, together *)
(* with the environment that feeds it (sibling modules publishing state    *)
(* changes, bus clients publishing requests, clightd signals, the clock).  *)
(*                                                                         *)
(* Units: brightness values are percentages (0..100 stands for 0.0..1.0),  *)
(* timeouts are seconds.                                                   *)
(***************************************************************************)
EXTENDS Integers, Sequences, FiniteSets, TLC

VARIABLES
    state,    \* the shared `state` struct (fields read or written by BACKLIGHT)
    conf,     \* the shared `conf` struct (bl_conf and sens_conf fields)
    mod,      \* BACKLIGHT's statics: paused_state, paused_fd_recv, bl_fd, slots, ok, behaviour stack
    rt,       \* timer and runtime: timerfd schedule, readability, fd registrations
    queue,    \* pubsub messages published and not yet delivered to BACKLIGHT
    fd_pending, \* timer-fd readiness events collected by the loop, not yet delivered
    ext,      \* the clightd services: what SetAll, Capture and IsAvailable answer now
    last,     \* what the last step did: handler, message, external calls, publications, timer operations
    hist,     \* history: readiness topics delivered, times waiting_init was left,
              \* timer firings handled in the current pause session (2 = two or more)
    br,       \* brightness.c: the static `br` struct (current, max, old), raw backlight units
    bus,      \* brightness.c: whether the static `bus` holds an open system-bus connection
    quit,     \* the daemon-wide quit flag written by brightness.c
    brlog     \* the last brightness.c entry point that ran and what it returned

brvars == <<br, bus, quit, brlog>>

vars == <<state, conf, mod, rt, queue, fd_pending, ext, last, hist, br, bus, quit, brlog>>

----------------------------------------------------------------------------
\* Bounds of the model
MaxQueue == 2
MaxFdPending == 2

\* enum backlight_pause
UNPAUSED == 0
DISPLAY == 1
SENSOR == 2
AUTOCALIB == 4
LID == 8

\* the readiness accumulator of receive_waiting_init
UPOWER_STARTED == 1
LID_STARTED == 2
DAYTIME_STARTED == 4
\* mutant: two of the three readiness signals are enough
TWO_STARTED == UPOWER_STARTED + LID_STARTED
ALL_STARTED == 7

\* enum ac_states and enum day_states; the timeout table has one column
\* more than there are day states, for the event window: IN_EVENT is the
\* index the range check of interface_timeout_callback accepts last
ON_AC == 0
ON_BATTERY == 1
SIZE_AC == 2
DAY == 0
NIGHT == 1
SIZE_STATES == 2
IN_EVENT == SIZE_STATES

\* the descriptor start_timer returns
TimerFd == 3

AcStates == {ON_AC, ON_BATTERY}
DayTimes == {DAY, NIGHT}
PauseBits == {DISPLAY, SENSOR, AUTOCALIB, LID}

\* inputs of the model
TimeoutValues == {0, 1, 2}
ReqPcts == {30, 70}
SignalPcts == {50}
SetAllOutcomes == {"ok", "notok", "fail"}
CaptureOutcomes == {-1, 5, 50}
ShutterThreshold == 10
ScreenComp == 0
FullPct == 100

----------------------------------------------------------------------------
\* Bit operations on the small bitmasks of the module

HasBit(x, b) == (x \div b) % 2 = 1

BitOr(x, b) == IF HasBit(x, b) THEN x ELSE x + b

BitClear(x, b) == IF HasBit(x, b) THEN x - b ELSE x

----------------------------------------------------------------------------
\* The world a handler runs in: the program's variables, the in-flight
\* messages behind the one being handled (q), the answers of the external
\* services (o), the return value of the last call (r) and the record of
\* what the handler did (out).

NoOut == [calls |-> <<>>, pubs |-> <<>>, tops |-> <<>>]

\* the size of a row of regression_points (kept small here)
MAX_SIZE_POINTS == 3

\* where the bytes of a copy that runs past a row of regression_points
\* land: on the other power state's row, or on memory not modelled here
Overruns == {"other_points", "untracked"}

World(q) ==
    [state |-> state, conf |-> conf, mod |-> mod, rt |-> rt,
     q |-> q, o |-> ext, r |-> 0, out |-> NoOut, overrun |-> "untracked"]

Call(w, c) == [w EXCEPT !.out.calls = Append(@, c)]

M_PUB(w, m) == [w EXCEPT !.out.pubs = Append(@, m)]

\* the behaviour that receives messages: top of the stack, `receive` below it
Behaviour(m) == IF m.recvs = <<>> THEN "receive" ELSE m.recvs[Len(m.recvs)]

m_become(w, b) == [w EXCEPT !.mod.recvs = Append(@, b)]

m_unbecome(w) ==
    [w EXCEPT !.mod.recvs = IF @ = <<>> THEN @ ELSE SubSeq(@, 1, Len(@) - 1)]

m_register_fd(w) == [w EXCEPT !.rt.registered = @ + 1]

m_deregister_fd(w) == [w EXCEPT !.rt.registered = @ - 1]

add_match(w, slot) == [w EXCEPT !.mod[slot] = TRUE, !.rt.matches = @ + 1]

----------------------------------------------------------------------------
\* Timer service (timer.c)

set_timeout(w, sec, nsec) ==
    [w EXCEPT !.rt.timer = [sec |-> sec, nsec |-> nsec],
              !.rt.readable = FALSE,
              !.out.tops = Append(@, [sec |-> sec, nsec |-> nsec])]

start_timer(w, initial_s, initial_ns) ==
    set_timeout([w EXCEPT !.mod.bl_fd = TimerFd, !.rt.created = @ + 1],
                initial_s, initial_ns)

read_timer(w) == [w EXCEPT !.rt.readable = FALSE]

get_timeout_sec(w) == w.rt.timer.sec

\* rearm only when the timeout changed, keeping the time already elapsed
reset_timer(w, old_timer, new_timer) ==
    LET w1 == Call(w, [member |-> "reset_timer", old |-> old_timer, new |-> new_timer])
        left == get_timeout_sec(w)
        elapsed_time == IF old_timer > left THEN old_timer - left ELSE 0
    IN  IF old_timer = new_timer
        THEN w1
        ELSE IF new_timer > elapsed_time
        THEN set_timeout(w1, new_timer - elapsed_time, 0)
        ELSE set_timeout(w1, 0, 1)

----------------------------------------------------------------------------
\* BACKLIGHT

\* conf.bl_conf.timeout[ac][daytime], the rows laid end to end
TimeoutIndex(ac, daytime) == ac * (SIZE_STATES + 1) + daytime

Timeout(w, ac, daytime) == w.conf.timeout[TimeoutIndex(ac, daytime)]

\* mutant: the event window is looked at only at night
get_current_timeout_no_event(w) ==
    Timeout(w, w.state.ac_state,
            IF w.state.day_time = NIGHT /\ w.state.in_event
            THEN IN_EVENT ELSE w.state.day_time)

get_current_timeout(w) ==
    IF w.state.in_event
    THEN Timeout(w, w.state.ac_state, IN_EVENT)
    ELSE Timeout(w, w.state.ac_state, w.state.day_time)

\* every pause_mod/resume_mod call is recorded with the reason set and the
\* behaviour before and after it
PauseCall(member, type, w, w2) ==
    Call(w2, [member |-> member, type |-> type,
              before |-> w.mod.paused_state, after |-> w2.mod.paused_state,
              recv_before |-> Behaviour(w.mod), recv_after |-> Behaviour(w2.mod)])

\* mutant: the behaviour is pushed on every pause, not only on the first reason
pause_mod_always(w, type) ==
    LET w1 == [w EXCEPT !.mod.paused_state = BitOr(@, type)]
    IN  PauseCall("pause_mod", type, w,
            [m_deregister_fd(m_become(w1, "paused"))
                EXCEPT !.mod.paused_fd_recv = FALSE])

\* mutant: the dedup flag is left as the previous pause session set it
pause_mod_keep_flag(w, type) ==
    LET old_paused == w.mod.paused_state
        w1 == [w EXCEPT !.mod.paused_state = BitOr(@, type)]
    IN  PauseCall("pause_mod", type, w,
            IF old_paused = UNPAUSED /\ w1.mod.paused_state # UNPAUSED
            THEN m_deregister_fd(m_become(w1, "paused"))
            ELSE w1)

pause_mod(w, type) ==
    LET old_paused == w.mod.paused_state
        w1 == [w EXCEPT !.mod.paused_state = BitOr(@, type)]
    IN  PauseCall("pause_mod", type, w,
            IF old_paused = UNPAUSED /\ w1.mod.paused_state # UNPAUSED
            THEN [m_deregister_fd(m_become(w1, "paused"))
                     EXCEPT !.mod.paused_fd_recv = FALSE]
            ELSE w1)

\* mutant: the descriptor is not registered back on resume
resume_mod_no_register(w, type) ==
    LET old_paused == w.mod.paused_state
        w1 == [w EXCEPT !.mod.paused_state = BitClear(@, type)]
    IN  PauseCall("resume_mod", type, w,
            IF old_paused # UNPAUSED /\ w1.mod.paused_state = UNPAUSED
            THEN m_unbecome(w1)
            ELSE w1)

resume_mod(w, type) ==
    LET old_paused == w.mod.paused_state
        w1 == [w EXCEPT !.mod.paused_state = BitClear(@, type)]
    IN  PauseCall("resume_mod", type, w,
            IF old_paused # UNPAUSED /\ w1.mod.paused_state = UNPAUSED
            THEN m_register_fd(m_unbecome(w1))
            ELSE w1)

\* my_math.c: clamp saturates
clamp(value, max, min) ==
    IF value > max THEN max ELSE IF value < min THEN min ELSE value

\* my_math.c: least-squares quadratic through the points (x = 0, 1, 2, ...);
\* the coefficients are kept doubled, <<2*a0, 2*a1, 2*a2>>, so that the fit
\* of three points is exact in integers. With no points nothing is fitted.
\* More than three points are fitted exactly when they all lie on the
\* quadratic through the first three (the only such inputs used here).
Through3(points) ==
    <<2 * points[1],
      4 * points[2] - 3 * points[1] - points[3],
      points[1] - 2 * points[2] + points[3]>>

OnQuadratic(points, num_points) ==
    LET c == Through3(points)
    IN  \A i \in 4..num_points :
            2 * points[i] = c[1] + c[2] * (i - 1) + c[3] * (i - 1) * (i - 1)

polynomialfit(points, prior, num_points) ==
    IF num_points >= 3 /\ OnQuadratic(points, num_points)
    THEN Through3(points)
    ELSE prior

\* a request is valid while no newer request of its kind is outstanding
VALIDATE_REQ(w, up) == \A i \in 1..Len(w.q) : w.q[i].type # up.type

SetAllCall(w, pct, is_smooth, step, timeout) ==
    Call(w, [member |-> "SetAll", timeout |-> timeout, pct |-> pct, step |-> step,
             smooth |-> is_smooth, res |-> w.o.setall])

\* mutant: only the call's return code is looked at, not the reply
set_backlight_level_any_reply(w, pct, is_smooth, step, timeout) ==
    LET w1 == SetAllCall(w, pct, is_smooth, step, timeout)
    IN  IF w.o.setall # "fail"
        THEN M_PUB([w1 EXCEPT !.state.current_bl_pct = pct],
                   [old |-> w.state.current_bl_pct, new |-> pct, timeout |-> timeout,
                    type |-> "BL_UPD", step |-> step, smooth |-> is_smooth])
        ELSE w1

\* "ok": the call returned 0 and the reply says ok; "notok": the call
\* returned 0 and the reply says not ok; "fail": the call failed
set_backlight_level(w, pct, is_smooth, step, timeout) ==
    LET w1 == SetAllCall(w, pct, is_smooth, step, timeout)
    IN  IF w.o.setall = "ok"
        THEN M_PUB([w1 EXCEPT !.state.current_bl_pct = pct],
                   [old |-> w.state.current_bl_pct, new |-> pct, timeout |-> timeout,
                    type |-> "BL_UPD", step |-> step, smooth |-> is_smooth])
        ELSE w1

\* perc is x * 100; the stored coefficients are doubled
set_new_backlight(w, perc) ==
    LET f == w.state.fit_parameters[w.state.ac_state]
        b == (f[1] * 10000 + f[2] * perc * 100 + f[3] * perc * perc) \div 20000
        new_br_pct == clamp(b, 100, 0)
    IN  set_backlight_level(w, new_br_pct, ~w.conf.no_smooth,
                            w.conf.trans_step, w.conf.trans_timeout)

\* the Capture call and the "Capture" branch of parse_bus_reply; the
\* service's reply is the average of the captured frames, or a failure
capture_frames_brightness(w) ==
    LET w1 == Call(w, [member |-> "Capture", res |-> w.o.capture])
    IN  IF w.o.capture >= 0
        THEN [M_PUB([w1 EXCEPT !.state.ambient_br = w.o.capture],
                    [old |-> w.state.ambient_br, new |-> w.o.capture,
                     type |-> "AMBIENT_BR_UPD"])
                 EXCEPT !.r = 0]
        ELSE [w1 EXCEPT !.r = -1]

\* mutant: the timer is rearmed only after a capture that succeeded
do_capture_rearm_on_success(w, reset_timer_arg, capture_only) ==
    LET w1 == capture_frames_brightness(w)
        compensated_br == clamp(w1.state.ambient_br - w1.state.screen_comp, 100, 0)
        w2 == IF w1.r = 0 /\ ~capture_only
                 /\ compensated_br >= w1.conf.shutter_threshold
              THEN set_new_backlight(w1,
                       compensated_br * (w1.conf.num_points[w1.state.ac_state] - 1))
              ELSE w1
    IN  IF reset_timer_arg /\ w1.r = 0
        THEN set_timeout(w2, get_current_timeout(w2), 0)
        ELSE w2

\* mutant: a reading below the shutter threshold is acted on as well
do_capture_no_threshold(w, reset_timer_arg, capture_only) ==
    LET w1 == capture_frames_brightness(w)
        compensated_br == clamp(w1.state.ambient_br - w1.state.screen_comp, 100, 0)
        w2 == IF w1.r = 0 /\ ~capture_only
              THEN set_new_backlight(w1,
                       compensated_br * (w1.conf.num_points[w1.state.ac_state] - 1))
              ELSE w1
    IN  IF reset_timer_arg
        THEN set_timeout(w2, get_current_timeout(w2), 0)
        ELSE w2

do_capture(w, reset_timer_arg, capture_only) ==
    LET w1 == capture_frames_brightness(w)
        compensated_br == clamp(w1.state.ambient_br - w1.state.screen_comp, 100, 0)
        w2 == IF w1.r = 0 /\ ~capture_only
                 /\ compensated_br >= w1.conf.shutter_threshold
              THEN set_new_backlight(w1,
                       compensated_br * (w1.conf.num_points[w1.state.ac_state] - 1))
              ELSE w1
    IN  IF reset_timer_arg
        THEN set_timeout(w2, get_current_timeout(w2), 0)
        ELSE w2

\* mutant: the timer is fired at once even when the timeout is disabled
upower_callback_always_fire(w) == set_timeout(w, 0, 1)

upower_callback(w) ==
    set_timeout(w, 0, IF get_current_timeout(w) > 0 THEN 1 ELSE 0)

interface_autocalib_callback(w, new_val) ==
    LET w1 == [w EXCEPT !.conf.no_auto_calib = new_val]
    IN  IF new_val THEN pause_mod(w1, AUTOCALIB) ELSE resume_mod(w1, AUTOCALIB)

\* regr_points = <<>> with num_points = 0 stands for the NULL pointer.
\* Each row of regression_points holds MAX_SIZE_POINTS values; memcpy copies
\* num_points values whatever the row holds, so what does not fit is written
\* past the row (w.overrun says where), and the fit reads the same
\* num_points values back from the row's address.
interface_curve_callback(w, regr_points, num_points, s) ==
    LET stored == w.conf.regression_points
        spilt == num_points - MAX_SIZE_POINTS
        w1 == IF regr_points # <<>>
              THEN [w EXCEPT
                      !.conf.regression_points =
                          [t \in AcStates |->
                              IF t = s
                              THEN [i \in 1..MAX_SIZE_POINTS |->
                                      IF i <= num_points THEN regr_points[i] ELSE stored[t][i]]
                              ELSE IF spilt > 0 /\ w.overrun = "other_points"
                              THEN [i \in 1..MAX_SIZE_POINTS |->
                                      IF i <= spilt THEN regr_points[MAX_SIZE_POINTS + i]
                                      ELSE stored[t][i]]
                              ELSE stored[t]],
                      !.conf.num_points[s] = num_points]
              ELSE w
        read == IF regr_points # <<>> /\ spilt > 0
                THEN regr_points
                ELSE w1.conf.regression_points[s]
    IN  [w1 EXCEPT !.state.fit_parameters[s] =
            polynomialfit(read, @, w1.conf.num_points[s])]

\* mutant: the timer is set anew whenever the entry written is the one of
\* the current power state and daytime, whether or not the effective timeout
\* changed
interface_timeout_callback_set(w, up) ==
    IF up.daytime >= DAY /\ up.daytime <= SIZE_STATES
    THEN LET w1 == [w EXCEPT !.conf.timeout[TimeoutIndex(up.state, up.daytime)] = up.new]
         IN  IF up.state = w.state.ac_state
                /\ (up.daytime = w.state.day_time
                    \/ (w.state.in_event /\ up.daytime = IN_EVENT))
             THEN set_timeout(w1, get_current_timeout(w1), 0)
             ELSE w1
    ELSE w

interface_timeout_callback(w, up) ==
    IF up.daytime >= DAY /\ up.daytime <= SIZE_STATES
    THEN LET old == get_current_timeout(w)
             w1 == [w EXCEPT !.conf.timeout[TimeoutIndex(up.state, up.daytime)] = up.new]
         IN  IF up.state = w.state.ac_state
                /\ (up.daytime = w.state.day_time
                    \/ (w.state.in_event /\ up.daytime = IN_EVENT))
             THEN reset_timer(w1, old, get_current_timeout(w1))
             ELSE w1
    ELSE w

dimmed_callback(w) ==
    IF w.state.display_state THEN pause_mod(w, DISPLAY) ELSE resume_mod(w, DISPLAY)

time_callback(w, old_val, is_event) ==
    LET old_timeout ==
            IF ~is_event
            THEN Timeout(w, w.state.ac_state, old_val)
            ELSE Timeout(w, w.state.ac_state,
                         IF w.state.in_event THEN w.state.day_time ELSE IN_EVENT)
    IN  reset_timer(w, old_timeout, get_current_timeout(w))

\* the IsAvailable call: r == 0 && available
is_sensor_available(w) == w.o.avail

on_sensor_change(w) ==
    LET new_sensor_avail == is_sensor_available(w)
        w1 == Call(w, [member |-> "IsAvailable", res |-> new_sensor_avail])
    IN  IF new_sensor_avail # w.state.sens_avail
        THEN LET w2 == [M_PUB(w1, [old |-> w.state.sens_avail, new |-> new_sensor_avail,
                                   type |-> "SENS_UPD"])
                           EXCEPT !.state.sens_avail = new_sensor_avail]
             IN  IF new_sensor_avail THEN resume_mod(w2, SENSOR) ELSE pause_mod(w2, SENSOR)
        ELSE w1

\* mutant: the signal restarts the capture timer as well
on_bl_changed_rearm(w, pct) ==
    set_timeout([w EXCEPT !.state.current_bl_pct = pct], get_current_timeout(w), 0)

on_bl_changed(w, pct) == [w EXCEPT !.state.current_bl_pct = pct]

\* mutant: a closed lid pauses whatever the configuration says
on_lid_update_unconfigured(w) ==
    IF w.state.lid_state THEN pause_mod(w, LID) ELSE resume_mod(w, LID)

on_lid_update(w) ==
    IF w.conf.pause_on_lid_closed /\ w.state.lid_state
    THEN pause_mod(w, LID)
    ELSE resume_mod(w, LID)

----------------------------------------------------------------------------
\* The three behaviours

\* mutant: the request published on a timer firing does not reset the timer
capture_req_no_reset ==
    [reset_timer |-> FALSE, type |-> "CAPTURE_REQ", capture_only |-> FALSE]

capture_req == [reset_timer |-> TRUE, type |-> "CAPTURE_REQ", capture_only |-> FALSE]

\* mutant: a superseded request is applied like a current one
receive_bl_req_unchecked(w, up) ==
    set_backlight_level(w, up.new, up.smooth, up.step, up.timeout)

\* case BL_REQ of receive
receive_bl_req(w, up) ==
    IF VALIDATE_REQ(w, up)
    THEN set_backlight_level(w, up.new, up.smooth, up.step, up.timeout)
    ELSE w

\* mutant: the display state is not looked at
receive_paused_bl_req_dimmed(w, up) ==
    IF VALIDATE_REQ(w, up)
    THEN set_backlight_level(w, up.new, up.smooth, up.step, up.timeout)
    ELSE w

\* case BL_REQ of receive_paused
receive_paused_bl_req(w, up) ==
    IF VALIDATE_REQ(w, up) /\ ~w.state.display_state
    THEN set_backlight_level(w, up.new, up.smooth, up.step, up.timeout)
    ELSE w

\* case CAPTURE_REQ of receive_paused
receive_paused_capture_req(w, up) ==
    IF VALIDATE_REQ(w, up) /\ ~w.state.display_state /\ w.state.sens_avail
    THEN do_capture(w, up.reset_timer, up.capture_only)
    ELSE w

\* mutant: a display change is acted upon while waiting
receive_waiting_init_display(w, msg) ==
    LET ok == CASE msg.type = "UPOWER_UPD" -> BitOr(w.mod.ok, UPOWER_STARTED)
                [] msg.type = "LID_UPD" -> BitOr(w.mod.ok, LID_STARTED)
                [] msg.type = "DAYTIME_UPD" -> BitOr(w.mod.ok, DAYTIME_STARTED)
                [] OTHER -> w.mod.ok
        w0 == [w EXCEPT !.mod.ok = ok]
        w1 == add_match(add_match(m_unbecome(w0), "sens_slot"), "bl_slot")
        w2 == m_register_fd(
                  start_timer(w1, 0, IF get_current_timeout(w1) > 0 THEN 1 ELSE 0))
        w3 == on_sensor_change(w2)
        w4 == IF w3.conf.no_auto_calib
              THEN pause_mod(set_backlight_level(w3, FullPct, FALSE, 0, 0), AUTOCALIB)
              ELSE w3
    IN  IF ok = ALL_STARTED
        THEN IF w4.state.lid_state THEN on_lid_update(w4) ELSE w4
        ELSE IF msg.type = "DISPLAY_UPD" THEN dimmed_callback(w0) ELSE w0

receive_waiting_init(w, msg) ==
    LET ok == CASE msg.type = "UPOWER_UPD" -> BitOr(w.mod.ok, UPOWER_STARTED)
                [] msg.type = "LID_UPD" -> BitOr(w.mod.ok, LID_STARTED)
                [] msg.type = "DAYTIME_UPD" -> BitOr(w.mod.ok, DAYTIME_STARTED)
                [] OTHER -> w.mod.ok
        w0 == [w EXCEPT !.mod.ok = ok]
        w1 == add_match(add_match(m_unbecome(w0), "sens_slot"), "bl_slot")
        w2 == m_register_fd(
                  start_timer(w1, 0, IF get_current_timeout(w1) > 0 THEN 1 ELSE 0))
        w3 == on_sensor_change(w2)
        w4 == IF w3.conf.no_auto_calib
              THEN pause_mod(set_backlight_level(w3, FullPct, FALSE, 0, 0), AUTOCALIB)
              ELSE w3
    IN  IF ok = ALL_STARTED
        THEN IF w4.state.lid_state THEN on_lid_update(w4) ELSE w4
        ELSE w0

receive(w, msg) ==
    CASE msg.type = "FD_UPD" -> M_PUB(read_timer(w), capture_req)
      [] msg.type = "UPOWER_UPD" -> upower_callback(w)
      [] msg.type = "DISPLAY_UPD" -> dimmed_callback(w)
      [] msg.type \in {"IN_EVENT_UPD", "DAYTIME_UPD"} ->
             time_callback(w, msg.old, msg.type = "IN_EVENT_UPD")
      [] msg.type = "LID_UPD" -> on_lid_update(w)
      [] msg.type = "BL_TO_REQ" ->
             IF VALIDATE_REQ(w, msg) THEN interface_timeout_callback(w, msg) ELSE w
      [] msg.type = "CAPTURE_REQ" ->
             IF VALIDATE_REQ(w, msg)
             THEN do_capture(w, msg.reset_timer, msg.capture_only)
             ELSE w
      [] msg.type = "CURVE_REQ" ->
             IF VALIDATE_REQ(w, msg)
             THEN interface_curve_callback(w, msg.regression_points, msg.num_points, msg.state)
             ELSE w
      [] msg.type = "NO_AUTOCALIB_REQ" ->
             IF VALIDATE_REQ(w, msg) THEN interface_autocalib_callback(w, msg.new) ELSE w
      [] msg.type = "BL_REQ" -> receive_bl_req(w, msg)
      [] OTHER -> w

receive_paused(w, msg) ==
    CASE msg.type = "FD_UPD" ->
             IF ~w.mod.paused_fd_recv
             THEN [set_timeout(read_timer(w), 0, 1) EXCEPT !.mod.paused_fd_recv = TRUE]
             ELSE w
      [] msg.type = "UPOWER_UPD" -> upower_callback(w)
      [] msg.type = "DISPLAY_UPD" -> dimmed_callback(w)
      [] msg.type \in {"IN_EVENT_UPD", "DAYTIME_UPD"} ->
             time_callback(w, msg.old, msg.type = "IN_EVENT_UPD")
      [] msg.type = "LID_UPD" -> on_lid_update(w)
      [] msg.type = "BL_TO_REQ" ->
             IF VALIDATE_REQ(w, msg) THEN interface_timeout_callback(w, msg) ELSE w
      [] msg.type = "CAPTURE_REQ" -> receive_paused_capture_req(w, msg)
      [] msg.type = "CURVE_REQ" ->
             IF VALIDATE_REQ(w, msg)
             THEN interface_curve_callback(w, msg.regression_points, msg.num_points, msg.state)
             ELSE w
      [] msg.type = "NO_AUTOCALIB_REQ" ->
             IF VALIDATE_REQ(w, msg) THEN interface_autocalib_callback(w, msg.new) ELSE w
      [] msg.type = "BL_REQ" -> receive_paused_bl_req(w, msg)
      [] OTHER -> w

----------------------------------------------------------------------------
\* Initial state: the globals as the daemon starts them, after BACKLIGHT's
\* init() has fitted both curves and become waiting_init.

InitPoints == [s \in AcStates |-> <<0, 50, 100>>]

InitTimeout ==
    [i \in 0..(SIZE_AC * (SIZE_STATES + 1) - 1) |->
        CASE i = TimeoutIndex(ON_AC, DAY) -> 2
          [] i = TimeoutIndex(ON_AC, NIGHT) -> 1
          [] i = TimeoutIndex(ON_AC, IN_EVENT) -> 1
          [] i = TimeoutIndex(ON_BATTERY, DAY) -> 2
          [] i = TimeoutIndex(ON_BATTERY, NIGHT) -> 2
          [] i = TimeoutIndex(ON_BATTERY, IN_EVENT) -> 0
          [] OTHER -> 0]

NoLast == [out |-> NoOut, msg |-> [type |-> "none"], recv |-> "none", fresh |-> TRUE]

Init ==
    /\ state = [ac_state |-> ON_AC, day_time |-> DAY, in_event |-> FALSE,
                current_bl_pct |-> 0,
                fit_parameters |->
                    [s \in AcStates |-> polynomialfit(InitPoints[s], <<0, 0, 0>>, 3)],
                ambient_br |-> 0, screen_comp |-> ScreenComp,
                display_state |-> FALSE, sens_avail |-> FALSE, lid_state |-> FALSE]
    /\ \E nac \in BOOLEAN, pol \in BOOLEAN :
          conf = [timeout |-> InitTimeout, num_points |-> [s \in AcStates |-> 3],
                  no_smooth |-> FALSE, trans_step |-> 5, trans_timeout |-> 30,
                  shutter_threshold |-> ShutterThreshold, no_auto_calib |-> nac,
                  regression_points |-> InitPoints, pause_on_lid_closed |-> pol]
    /\ mod = [recvs |-> <<"waiting_init">>, bl_fd |-> -1, paused_state |-> UNPAUSED,
              paused_fd_recv |-> FALSE, ok |-> 0, sens_slot |-> FALSE,
              bl_slot |-> FALSE]
    /\ rt = [registered |-> 0, matches |-> 0, timer |-> [sec |-> 0, nsec |-> 0],
             readable |-> FALSE, created |-> 0]
    /\ queue = <<>>
    /\ fd_pending = 0
    /\ \E a \in BOOLEAN : ext = [setall |-> "ok", capture |-> 50, avail |-> a]
    /\ last = NoLast
    /\ hist = [left |-> 0, seen |-> {}, fired |-> 0]
    /\ br = [old |-> 0, max |-> 0, current |-> 0]
    /\ bus = FALSE
    /\ quit = 0
    /\ brlog = [fn |-> "none", ret |-> 0]

----------------------------------------------------------------------------
\* Delivery of one message to the current behaviour

IsCaptureReq(m) == m.type = "CAPTURE_REQ"

ReadinessTopics == {"UPOWER_UPD", "LID_UPD", "DAYTIME_UPD"}

Handled(b, msg, rest, fdp, w, w2) ==
    LET newq == rest \o SelectSeq(w2.out.pubs, IsCaptureReq)
    IN  /\ Len(newq) <= MaxQueue
        /\ state' = w2.state
        /\ conf' = w2.conf
        /\ mod' = w2.mod
        /\ rt' = w2.rt
        /\ queue' = newq
        /\ fd_pending' = fdp
        /\ last' = [out |-> w2.out, msg |-> msg, recv |-> b,
                    fresh |-> VALIDATE_REQ(w, msg)]
        /\ hist' = [left |-> IF b = "waiting_init" /\ Behaviour(w2.mod) # "waiting_init"
                             THEN hist.left + 1 ELSE hist.left,
                    seen |-> IF msg.type \in ReadinessTopics
                             THEN hist.seen \cup {msg.type} ELSE hist.seen,
                    fired |-> IF b = "paused" /\ msg.type = "FD_UPD"
                              THEN (IF hist.fired < 2 THEN hist.fired + 1 ELSE 2)
                              ELSE IF Behaviour(w.mod) # "paused"
                                      /\ Behaviour(w2.mod) = "paused"
                              THEN 0 ELSE hist.fired]
        /\ UNCHANGED brvars

\* the outcomes of handling msg: one, unless it makes a copy overrun
OverrunsOf(msg) ==
    IF msg.type = "CURVE_REQ" /\ msg.num_points > MAX_SIZE_POINTS
    THEN Overruns
    ELSE {"untracked"}

FdMsg == [type |-> "FD_UPD"]

RecvWaitingInit ==
    /\ Behaviour(mod) = "waiting_init"
    /\ queue # <<>>
    /\ LET w == World(Tail(queue))
       IN  Handled("waiting_init", Head(queue), Tail(queue), fd_pending, w,
                   receive_waiting_init(w, Head(queue)))
    /\ UNCHANGED ext

Receive ==
    /\ Behaviour(mod) = "receive"
    /\ queue # <<>>
    /\ \E u \in OverrunsOf(Head(queue)) :
          LET w == [World(Tail(queue)) EXCEPT !.overrun = u]
          IN  Handled("receive", Head(queue), Tail(queue), fd_pending, w,
                      receive(w, Head(queue)))
    /\ UNCHANGED ext

ReceiveFd ==
    /\ Behaviour(mod) = "receive"
    /\ fd_pending > 0
    /\ LET w == World(queue)
       IN  Handled("receive", FdMsg, queue, fd_pending - 1, w, receive(w, FdMsg))
    /\ UNCHANGED ext

ReceivePaused ==
    /\ Behaviour(mod) = "paused"
    /\ queue # <<>>
    /\ \E u \in OverrunsOf(Head(queue)) :
          LET w == [World(Tail(queue)) EXCEPT !.overrun = u]
          IN  Handled("paused", Head(queue), Tail(queue), fd_pending, w,
                      receive_paused(w, Head(queue)))
    /\ UNCHANGED ext

ReceivePausedFd ==
    /\ Behaviour(mod) = "paused"
    /\ fd_pending > 0
    /\ LET w == World(queue)
       IN  Handled("paused", FdMsg, queue, fd_pending - 1, w, receive_paused(w, FdMsg))
    /\ UNCHANGED ext

\* clightd signals, delivered to the match callbacks whatever the behaviour.
\* Sensor.Changed: a sensor is plugged or unplugged, then the callback runs.
SensorChanged ==
    /\ mod.sens_slot
    /\ ext' = [ext EXCEPT !.avail = ~@]
    /\ LET w == [World(queue) EXCEPT !.o = ext']
       IN  Handled("on_sensor_change", [type |-> "Sensor.Changed"], queue,
                   fd_pending, w, on_sensor_change(w))

\* Backlight.Changed: the level was changed from outside (hotkeys)
BlChanged ==
    /\ mod.bl_slot
    /\ \E pct \in SignalPcts :
          LET w == World(queue)
          IN  Handled("on_bl_changed", [type |-> "Backlight.Changed", pct |-> pct],
                      queue, fd_pending, w, on_bl_changed(w, pct))
    /\ UNCHANGED ext

----------------------------------------------------------------------------
\* The environment: sibling modules change their field of `state` and then
\* publish the change (at startup they announce the value they start with);
\* bus clients publish requests; the services change their answers; the
\* clock runs.

EffTimeout(st) ==
    get_current_timeout([state |-> st, conf |-> conf])

Env(st, q, e) ==
    /\ state' = st
    /\ queue' = q
    /\ ext' = e
    /\ last' = NoLast
    /\ UNCHANGED <<conf, mod, rt, fd_pending, hist>>
    /\ UNCHANGED brvars

Publish(st, m) ==
    /\ Len(queue) < MaxQueue
    /\ Env(st, Append(queue, m), ext)

\* `was` and `now` record the effective timeout before and after the change,
\* `snap` the power state, bucket and event flag the change leaves
TimeoutChange(st, m) ==
    Publish(st, m @@ [was |-> EffTimeout(state), now |-> EffTimeout(st),
                      snap |-> <<st.ac_state, st.day_time, st.in_event>>])

\* the siblings start together with BACKLIGHT: their first publication gives
\* the value they start with, and may be repeated while BACKLIGHT waits
AnnounceUPower ==
    /\ Behaviour(mod) = "waiting_init"
    /\ TimeoutChange(state, [type |-> "UPOWER_UPD"])

AnnounceLid ==
    /\ Behaviour(mod) = "waiting_init"
    /\ Publish(state, [type |-> "LID_UPD"])

AnnounceDaytime ==
    /\ Behaviour(mod) = "waiting_init"
    /\ TimeoutChange(state, [old |-> state.day_time, type |-> "DAYTIME_UPD"])

PubUPower ==
    TimeoutChange([state EXCEPT !.ac_state = IF @ = ON_AC THEN ON_BATTERY ELSE ON_AC],
                  [type |-> "UPOWER_UPD"])

PubDisplay == Publish([state EXCEPT !.display_state = ~@], [type |-> "DISPLAY_UPD"])

PubLid == Publish([state EXCEPT !.lid_state = ~@], [type |-> "LID_UPD"])

PubDaytime ==
    TimeoutChange([state EXCEPT !.day_time = IF @ = DAY THEN NIGHT ELSE DAY],
                  [old |-> state.day_time, type |-> "DAYTIME_UPD"])

PubInEvent ==
    TimeoutChange([state EXCEPT !.in_event = ~@], [old |-> 0, type |-> "IN_EVENT_UPD"])

Request(m) == Publish(state, m)

\* a column below the table's, two of its columns, and one above
ToReqDaytimes == {-1, DAY, IN_EVENT, SIZE_STATES + 1}

\* the timeouts asked for
ToReqValues == {1}

PubBlToReq ==
    \E s \in AcStates, d \in ToReqDaytimes, t \in ToReqValues :
        Request([state |-> s, new |-> t, daytime |-> d, type |-> "BL_TO_REQ"])

PubCaptureReq ==
    \E rst \in BOOLEAN, only \in BOOLEAN :
        Request([reset_timer |-> rst, type |-> "CAPTURE_REQ", capture_only |-> only])

\* three points, and four points (one more than a row holds)
CurveInputs == {<<0, 20, 40>>, <<0, 20, 40, 60>>}

PubCurveReq ==
    \E s \in AcStates, pts \in CurveInputs :
        Request([state |-> s, type |-> "CURVE_REQ",
                 num_points |-> Len(pts), regression_points |-> pts])

PubNoAutocalibReq ==
    \E new \in BOOLEAN : Request([new |-> new, type |-> "NO_AUTOCALIB_REQ"])

Smoothing ==
    {[timeout |-> 30, step |-> 5, smooth |-> TRUE],
     [timeout |-> 0, step |-> 0, smooth |-> FALSE]}

PubBlReq ==
    \E new \in ReqPcts, sm \in Smoothing :
        Request([new |-> new, timeout |-> sm.timeout, type |-> "BL_REQ",
                 step |-> sm.step, smooth |-> sm.smooth])

\* the backlight service starts or stops failing
ExtSetAll ==
    \E res \in SetAllOutcomes \ {ext.setall} :
        Env(state, queue, [ext EXCEPT !.setall = res])

\* the ambient light changes, or the sensor starts failing
ExtCapture ==
    \E res \in CaptureOutcomes \ {ext.capture} :
        Env(state, queue, [ext EXCEPT !.capture = res])

\* one second passes on the timer's clock; a timer that runs out makes the
\* descriptor readable and, being one-shot, is disarmed
Tick ==
    /\ rt.timer # [sec |-> 0, nsec |-> 0]
    /\ rt' = IF rt.timer.sec > 1
             THEN [rt EXCEPT !.timer.sec = @ - 1]
             ELSE [rt EXCEPT !.timer = [sec |-> 0, nsec |-> 0], !.readable = TRUE]
    /\ last' = NoLast
    /\ UNCHANGED <<state, conf, mod, queue, fd_pending, ext, hist>>
    /\ UNCHANGED brvars

\* the loop finds the registered descriptor readable
Poll ==
    /\ rt.registered > 0
    /\ rt.readable
    /\ fd_pending < MaxFdPending
    /\ fd_pending' = fd_pending + 1
    /\ last' = NoLast
    /\ UNCHANGED <<state, conf, mod, rt, queue, ext, hist>>
    /\ UNCHANGED brvars

----------------------------------------------------------------------------
\* brightness.c: the bus connection, the brightness queries, the actuation
\* and the capture of the first daemon.  A bus call either cannot be issued
\* ("call"), returns a reply that cannot be decoded ("parse"), or succeeds.

BusResults == {"ok", "call", "parse"}

\* what getmaxbrightness can answer
MaxBrightnessValues == {4, 10}

\* the percentages set_brightness is called with
Percs == {0, 25, 50, 75, 100}

\* what captureframes can answer (percent)
AvgValues == {5, 50}

BrWorld == [br |-> br, bus |-> bus, quit |-> quit, brlog |-> brlog]

get_max_brightness(b, res, val) ==
    IF res = "call" THEN [b EXCEPT !.quit = 1]
    ELSE IF res = "parse" THEN [b EXCEPT !.quit = 1]
    ELSE [b EXCEPT !.br.max = val]

get_current_brightness(b, res, val) ==
    IF res = "call" THEN [b EXCEPT !.quit = 1]
    ELSE IF res = "parse" THEN [b EXCEPT !.quit = 1]
    ELSE [b EXCEPT !.br.current = val]

\* connected is the outcome of sd_bus_open_system
init_brightness(b, connected, rmax, vmax, rcur, vcur) ==
    IF ~connected
    THEN [b EXCEPT !.quit = 1, !.brlog = [fn |-> "init_brightness", ret |-> 0]]
    ELSE LET b1 == [b EXCEPT !.bus = TRUE]
             b2 == get_max_brightness(b1, rmax, vmax)
             b3 == get_current_brightness(b2, rcur, vcur)
         IN  [b3 EXCEPT !.brlog = [fn |-> "init_brightness", ret |-> 0]]

\* the service answers with the raw value it was asked to set; the value
\* returned is the change as a percentage of the maximum
set_brightness(b, perc, res) ==
    LET b1 == [b EXCEPT !.br.old = b.br.current]
        b2 == IF res = "call" THEN [b1 EXCEPT !.quit = 1]
              ELSE IF res = "parse" THEN [b1 EXCEPT !.quit = 1]
              ELSE [b1 EXCEPT !.br.current = (b.br.max * perc) \div 100]
    IN  [b2 EXCEPT !.brlog = [fn |-> "set_brightness",
                              ret |-> ((b2.br.current - b2.br.old) * 100) \div b2.br.max]]

capture_frames(b, res, avg) ==
    LET b1 == IF res = "call" THEN [b EXCEPT !.quit = 1]
              ELSE IF res = "parse" THEN [b EXCEPT !.quit = 1]
              ELSE b
    IN  [b1 EXCEPT !.brlog = [fn |-> "capture_frames",
                              ret |-> IF res = "ok" THEN avg ELSE 0]]

BrStep(b) ==
    /\ br' = b.br
    /\ bus' = b.bus
    /\ quit' = b.quit
    /\ brlog' = b.brlog
    /\ UNCHANGED <<state, conf, mod, rt, queue, fd_pending, ext, last, hist>>

\* startup
InitBrightness ==
    /\ brlog.fn = "none"
    /\ \E connected \in BOOLEAN, rmax \in BusResults, rcur \in BusResults,
          vmax \in MaxBrightnessValues :
          \E vcur \in {0, vmax} :
             BrStep(init_brightness(BrWorld, connected, rmax, vmax, rcur, vcur))

\* the main loop runs its steps until quit is set
BrRunning == brlog.fn # "none" /\ quit = 0

SetBrightness ==
    /\ BrRunning
    /\ \E perc \in Percs, res \in BusResults :
          BrStep(set_brightness(BrWorld, perc, res))

CaptureFrames ==
    /\ BrRunning
    /\ \E res \in BusResults, avg \in AvgValues :
          BrStep(capture_frames(BrWorld, res, avg))

\* the handlers of the module and the loop that feeds them
Module ==
    \/ RecvWaitingInit
    \/ Receive
    \/ ReceiveFd
    \/ ReceivePaused
    \/ ReceivePausedFd
    \/ Tick
    \/ Poll

Next ==
    \/ Module
    \/ SensorChanged
    \/ BlChanged
    \/ AnnounceUPower
    \/ AnnounceLid
    \/ AnnounceDaytime
    \/ PubUPower
    \/ PubDisplay
    \/ PubLid
    \/ PubDaytime
    \/ PubInEvent
    \/ PubBlToReq
    \/ PubCaptureReq
    \/ PubCurveReq
    \/ PubNoAutocalibReq
    \/ PubBlReq
    \/ ExtSetAll
    \/ ExtCapture
    \/ InitBrightness
    \/ SetBrightness
    \/ CaptureFrames

Spec == Init /\ [][Next]_vars

\* Pausing and resuming: the display dims and undims, the lid closes and
\* opens, the sensor comes and goes, autocalibration is disabled or not by
\* the configuration; the timer fires
NextPause ==
    \/ Module
    \/ SensorChanged
    \/ AnnounceUPower
    \/ AnnounceDaytime
    \/ PubLid
    \/ PubDisplay

SpecPause == Init /\ [][NextPause]_vars

\* Timeouts: the power source, the daytime bucket and the event window
\* change; the timer fires; the display dims and undims, so that the
\* module is Active at times and Paused at others
NextTimeout ==
    \/ Module
    \/ AnnounceLid
    \/ PubUPower
    \/ PubDaytime
    \/ PubInEvent
    \/ PubDisplay

\* no pausing on a closed lid
InitNoLid == Init /\ ~conf.pause_on_lid_closed

\* Backlight requests, singly or two at once, while the backlight service
\* works or fails and the display dims and undims
NextReq ==
    \/ Module
    \/ AnnounceUPower
    \/ AnnounceLid
    \/ AnnounceDaytime
    \/ PubDisplay
    \/ PubBlReq
    \/ ExtSetAll

SpecReq == InitNoLid /\ [][NextReq]_vars

\* Backlight and capture requests while the display dims and undims, with a
\* sensor present or not, autocalibration disabled or not, and no pausing on
\* a closed lid
NextPausedReq ==
    \/ Module
    \/ AnnounceUPower
    \/ AnnounceLid
    \/ AnnounceDaytime
    \/ PubDisplay
    \/ PubBlReq
    \/ PubCaptureReq

SpecPausedReq == InitNoLid /\ [][NextPausedReq]_vars

\* ... with a sensor present and no pausing on a closed lid
InitSensorNoLid == Init /\ ext.avail /\ ~conf.pause_on_lid_closed

SpecTimeout == InitSensorNoLid /\ [][NextTimeout]_vars

\* Captures: capture requests of every kind and the timer's own, while the
\* sensor's readings change or fail, the backlight service works or fails
\* and the display dims and undims
NextCapture ==
    \/ Module
    \/ AnnounceUPower
    \/ AnnounceLid
    \/ AnnounceDaytime
    \/ PubDisplay
    \/ PubCaptureReq
    \/ ExtSetAll
    \/ ExtCapture

SpecCapture == InitSensorNoLid /\ [][NextCapture]_vars

\* Reasons: the lid closes and opens and autocalibration is switched off and
\* on by request, from any startup configuration
NextReasons ==
    \/ Module
    \/ AnnounceUPower
    \/ AnnounceLid
    \/ AnnounceDaytime
    \/ PubLid
    \/ PubNoAutocalibReq

SpecReasons == Init /\ [][NextReasons]_vars

\* Hotkeys: the backlight is changed from outside while the display dims and
\* undims
NextSignal ==
    \/ Module
    \/ AnnounceUPower
    \/ AnnounceLid
    \/ AnnounceDaytime
    \/ PubDisplay
    \/ BlChanged

SpecSignal == InitNoLid /\ [][NextSignal]_vars

\* Curve updates, while running and while paused.
NextCurve ==
    \/ Module
    \/ AnnounceUPower
    \/ AnnounceLid
    \/ AnnounceDaytime
    \/ PubDisplay
    \/ PubCurveReq

InitCurve == InitSensorNoLid /\ ~conf.no_auto_calib

SpecCurve == InitCurve /\ [][NextCurve]_vars

\* Startup: the display state changes and requests of every kind are
\* published while the module waits for its three readiness signals; what is
\* still undelivered when the third arrives is handled after it.
Waiting == Behaviour(mod) = "waiting_init"

EarlyDisplay == Waiting /\ PubDisplay

EarlyBlToReq == Waiting /\ PubBlToReq

EarlyCaptureReq == Waiting /\ PubCaptureReq

EarlyCurveReq == Waiting /\ PubCurveReq

EarlyNoAutocalibReq == Waiting /\ PubNoAutocalibReq

EarlyBlReq == Waiting /\ PubBlReq

NextWaiting ==
    \/ Module
    \/ AnnounceUPower
    \/ AnnounceLid
    \/ AnnounceDaytime
    \/ EarlyDisplay
    \/ EarlyBlToReq
    \/ EarlyCaptureReq
    \/ EarlyCurveReq
    \/ EarlyNoAutocalibReq
    \/ EarlyBlReq

SpecWaiting == InitSensorNoLid /\ [][NextWaiting]_vars

\* The capture loop: the timer fires, a capture is requested and made, the
\* timer is set again; the display dims and undims meanwhile.
NextRecurring ==
    \/ Module
    \/ AnnounceUPower
    \/ AnnounceLid
    \/ AnnounceDaytime
    \/ PubDisplay

\* when Receive and ReceiveFd can take a step (their ENABLED, written out)
ReceiveReady == Behaviour(mod) = "receive" /\ queue # <<>>

ReceiveFdReady ==
    Behaviour(mod) = "receive" /\ fd_pending > 0 /\ Len(queue) < MaxQueue

\* The event loop dispatches every pending event: the clock advances and a
\* readable registered descriptor is polled (WF_vars(Tick), WF_vars(Poll)),
\* a queued message is delivered (weak fairness of Receive), and a timer
\* event is delivered however often other publications fill the queue, the
\* bound on the queue being the model's (strong fairness of ReceiveFd).
FairRecurring ==
    /\ WF_vars(Tick)
    /\ WF_vars(Poll)
    /\ ([]<>~ReceiveReady \/ []<><<Receive>>_vars)
    /\ (<>[]~ReceiveFdReady \/ []<><<ReceiveFd>>_vars)

SpecRecurring == InitCurve /\ [][NextRecurring]_vars /\ FairRecurring

\* Timeout-table updates, in and out of an event window, while running and
\* while paused.
NextToReq ==
    \/ Module
    \/ AnnounceUPower
    \/ AnnounceLid
    \/ AnnounceDaytime
    \/ PubDisplay
    \/ PubInEvent
    \/ PubBlToReq

SpecToReq == InitCurve /\ [][NextToReq]_vars

\* The first daemon's brightness.c on its own: startup, then actuations and
\* captures until quit is set.
NextBrightness ==
    \/ InitBrightness
    \/ SetBrightness
    \/ CaptureFrames

SpecBrightness == Init /\ [][NextBrightness]_vars

----------------------------------------------------------------------------
\* Claims

Started == Behaviour(mod) # "waiting_init"

PauseCalls == {"pause_mod", "resume_mod"}

LastPauseCalls ==
    {i \in DOMAIN last.out.calls : last.out.calls[i].member \in PauseCalls}

\* C1: once the module has left WaitingInit, its behaviour is the paused one
\* exactly when the pause-reason set is non-empty, and Active otherwise; this
\* holds after every single pause_mod/resume_mod call; pausing a reason that
\* is set or resuming one that is not changes neither the set nor the
\* behaviour; a resume gives Active back exactly when it empties the set.
C1_PausedIffReasons ==
    /\ Started =>
          /\ mod.paused_state # UNPAUSED <=> Behaviour(mod) = "paused"
          /\ mod.paused_state = UNPAUSED <=> Behaviour(mod) = "receive"
    /\ \A i \in LastPauseCalls :
          LET c == last.out.calls[i]
          IN  /\ c.after # UNPAUSED <=> c.recv_after = "paused"
              /\ c.after = UNPAUSED <=> c.recv_after = "receive"
              /\ (c.member = "pause_mod" /\ HasBit(c.before, c.type))
                    => (c.after = c.before /\ c.recv_after = c.recv_before)
              /\ (c.member = "resume_mod" /\ ~HasBit(c.before, c.type))
                    => (c.after = c.before /\ c.recv_after = c.recv_before)
              /\ (c.member = "resume_mod" /\ c.recv_before = "paused")
                    => (c.recv_after = "receive" <=> c.before = c.type)

\* C1 witness: a resume has just removed the last reason and the module is
\* Active again
C1_Witness ==
    /\ Started
    /\ Behaviour(mod) = "receive"
    /\ \E i \in LastPauseCalls :
          LET c == last.out.calls[i]
          IN  c.member = "resume_mod" /\ c.before = c.type /\ c.recv_after = "receive"

\* C2: WaitingInit is left at most once and never entered again, only after
\* UPOWER_UPD, LID_UPD and DAYTIME_UPD have each been delivered; the one-time
\* setup (two signal watches, one timer created and registered) has run
\* exactly once when it is left and not at all before.
C2_InitOnce ==
    /\ hist.left \in {0, 1}
    /\ Started <=> hist.left = 1
    /\ Started <=> mod.ok = ALL_STARTED
    /\ ~Started => /\ mod.recvs = <<"waiting_init">>
                   /\ rt.created = 0 /\ rt.matches = 0 /\ rt.registered = 0
                   /\ mod.bl_fd = -1 /\ ~mod.sens_slot /\ ~mod.bl_slot
    /\ Started => /\ ReadinessTopics \subseteq hist.seen
                  /\ rt.created = 1 /\ rt.matches = 2
                  /\ mod.bl_fd = TimerFd /\ mod.sens_slot /\ mod.bl_slot
                  /\ \A i \in DOMAIN mod.recvs : mod.recvs[i] # "waiting_init"

\* C2 witness: the third readiness signal has just been handled and the
\* setup has run
C2_Witness ==
    /\ last.recv = "waiting_init"
    /\ Started
    /\ rt.created = 1

\* C7: after the one-time setup the timer's descriptor is registered exactly
\* when the pause-reason set is empty, it is never registered twice and an
\* unregistered descriptor is never deregistered.
C7_RegisteredIffUnpaused ==
    /\ rt.registered \in {0, 1}
    /\ Started => (rt.registered = 1 <=> mod.paused_state = UNPAUSED)

\* C7 witness: the module is Active again after a pause, descriptor registered
C7_Witness ==
    /\ Started
    /\ rt.registered = 1
    /\ \E i \in LastPauseCalls :
          last.out.calls[i].member = "resume_mod"
          /\ last.out.calls[i].recv_before = "paused"
          /\ last.out.calls[i].recv_after = "receive"

PausedFiring == last.recv = "paused" /\ last.msg.type = "FD_UPD"

\* C8: a timer firing handled while Paused makes no external call and
\* publishes nothing; the first firing of a pause session rearms the timer
\* to 1ns, every later firing of the session leaves the timer alone; the
\* dedup flag is clear when a pause session begins and set after a firing.
C8_PausedFiring ==
    /\ PausedFiring =>
          /\ last.out.calls = <<>>
          /\ last.out.pubs = <<>>
          /\ hist.fired = 1 => last.out.tops = <<[sec |-> 0, nsec |-> 1]>>
          /\ hist.fired > 1 => last.out.tops = <<>>
    /\ Behaviour(mod) = "paused" => (mod.paused_fd_recv <=> hist.fired > 0)

\* C8 witness: a second firing in one pause session was ignored
C8_Witness == PausedFiring /\ hist.fired = 2 /\ last.out.tops = <<>>

Eff == get_current_timeout([state |-> state, conf |-> conf])

Entry(ac, daytime) == conf.timeout[TimeoutIndex(ac, daytime)]

Running == last.recv \in {"receive", "paused"}

\* C4: the effective timeout is the IN_EVENT entry of the current power state
\* while an event window is active and the entry of the current daytime
\* bucket otherwise: a change of bucket during an event window leaves it as
\* it is, the end of an event window gives the entry of the bucket current
\* then, and a capture that resets the timer arms it with that value.
C4_EffectiveTimeout ==
    [][/\ (state.in_event /\ state'.in_event /\ state'.ac_state = state.ac_state
            /\ conf'.timeout = conf.timeout) => Eff' = Eff
       /\ (state.in_event /\ ~state'.in_event)
            => Eff' = conf'.timeout[TimeoutIndex(state'.ac_state, state'.day_time)]
       /\ state'.in_event
            => Eff' = conf'.timeout[TimeoutIndex(state'.ac_state, IN_EVENT)]
       /\ (Running' /\ last'.msg.type = "CAPTURE_REQ" /\ last'.out.tops # <<>>)
            => last'.out.tops[Len(last'.out.tops)] = [sec |-> Eff', nsec |-> 0]
      ]_vars

\* C4 witness: an event window began and the daytime bucket changed during
\* it; both changes are still to be handled
C4_Witness ==
    /\ Started
    /\ Len(queue) = 2
    /\ queue[1].type = "IN_EVENT_UPD"
    /\ queue[2].type = "DAYTIME_UPD"
    /\ state.in_event
    /\ queue[2].was = queue[2].now
    /\ Entry(state.ac_state, DAY) # Entry(state.ac_state, NIGHT)

\* a bucket or event-window change has been handled, with the power state,
\* the bucket and the event flag still as that change left them
TimeChange ==
    /\ Running
    /\ last.msg.type \in {"DAYTIME_UPD", "IN_EVENT_UPD"}
    /\ last.msg.snap = <<state.ac_state, state.day_time, state.in_event>>

ResetCalls ==
    {i \in DOMAIN last.out.calls : last.out.calls[i].member = "reset_timer"}

\* C5: when a DAYTIME_UPD or IN_EVENT_UPD is handled, the old timeout passed
\* to the rearm is the effective timeout that was in force before the change,
\* and the timer is rearmed only if the effective timeout changed (stated
\* for a change handled before anything else changed, the case most
\* favourable to the claim).
C5_OldTimeoutIsEffective ==
    TimeChange =>
        /\ \A i \in ResetCalls : last.out.calls[i].old = last.msg.was
        /\ last.out.tops # <<>> => last.msg.was # last.msg.now

PowerChange == Running /\ last.msg.type = "UPOWER_UPD"

\* C6 as claimed: a power-state change rearms the timer only if it changed
\* the effective timeout.
C6_RearmOnlyIfChanged ==
    PowerChange => (last.out.tops # <<>> => last.msg.was # last.msg.now)

\* C6 as the code has it: a power-state change always sets the timer, to
\* fire at once (1ns) if the effective timeout is positive and disarmed if
\* it is not, whether or not the effective timeout changed.
C6_AlwaysRearmed ==
    PowerChange =>
        last.out.tops = <<[sec |-> 0, nsec |-> IF Eff > 0 THEN 1 ELSE 0]>>

\* C6 witness: a power-state change that left the effective timeout equal
\* has set the timer
C6_Witness ==
    /\ PowerChange
    /\ last.msg.was = last.msg.now
    /\ last.out.tops # <<>>

----------------------------------------------------------------------------
\* Requests

\* the step handled the backlight request at the head of the queue
HandledBlReq ==
    /\ queue # <<>>
    /\ Head(queue).type = "BL_REQ"
    /\ last'.msg = Head(queue)
    /\ last'.recv \in {"receive", "paused"}

\* another backlight request was published behind the one being handled
Superseded == \E i \in 2..Len(queue) : queue[i].type = "BL_REQ"

SetAllOf(m) ==
    [member |-> "SetAll", timeout |-> m.timeout, pct |-> m.new, step |-> m.step,
     smooth |-> m.smooth, res |-> ext.setall]

\* C3: a backlight request behind which a newer backlight request is already
\* queued is dropped without any call to the backlight service, without any
\* publication and without a change of the current level; a request with no
\* newer one behind it, handled in Active, is passed to the backlight service
\* with its own value, which becomes the current level when the service
\* answers ok
C3_StaleRequestDropped ==
    [][HandledBlReq =>
          /\ Superseded => (last'.out = NoOut /\ state' = state /\ rt' = rt)
          /\ (~Superseded /\ last'.recv = "receive") =>
                /\ last'.out.calls = <<SetAllOf(Head(queue))>>
                /\ ext.setall = "ok" => state'.current_bl_pct = Head(queue).new]_vars

\* a request was just dropped in Active because a newer one with another value
\* waits behind it
C3_Witness ==
    /\ last.recv = "receive"
    /\ last.msg.type = "BL_REQ"
    /\ ~last.fresh
    /\ last.out = NoOut
    /\ queue # <<>>
    /\ Head(queue).type = "BL_REQ"
    /\ Head(queue).new # last.msg.new

\* the step handled, in Paused, the request at the head of the queue
HandledPausedReq ==
    /\ queue # <<>>
    /\ Head(queue).type \in {"BL_REQ", "CAPTURE_REQ"}
    /\ last'.msg = Head(queue)
    /\ last'.recv = "paused"

NewerOfKind == \E i \in 2..Len(queue) : queue[i].type = Head(queue).type

CaptureCalls(out) == SelectSeq(out.calls, LAMBDA c : c.member = "Capture")

\* C9: in Paused with the display dimmed a backlight request and a capture
\* request change nothing: no call, no publication, no timer operation, same
\* level. In Paused with the display not dimmed a backlight request with no
\* newer one behind it is passed to the backlight service, and a capture
\* request with no newer one behind it makes a capture if and only if the
\* sensor is available
C9_PausedRequests ==
    [][HandledPausedReq =>
          /\ state.display_state => (last'.out = NoOut /\ state' = state /\ rt' = rt)
          /\ (~state.display_state /\ ~NewerOfKind /\ Head(queue).type = "BL_REQ") =>
                last'.out.calls = <<SetAllOf(Head(queue))>>
          /\ (~state.display_state /\ ~NewerOfKind /\ Head(queue).type = "CAPTURE_REQ") =>
                (CaptureCalls(last'.out) # <<>> <=> state.sens_avail)]_vars

\* a current backlight request was just rejected in Paused, the display dimmed
C9_Witness ==
    /\ last.recv = "paused"
    /\ last.msg.type = "BL_REQ"
    /\ last.fresh
    /\ state.display_state
    /\ last.out = NoOut

SetAllCalls(out) == SelectSeq(out.calls, LAMBDA c : c.member = "SetAll")

BlUpds(out) == SelectSeq(out.pubs, LAMBDA m : m.type = "BL_UPD")

\* C10: when a handler asks the backlight service for a level and the service
\* answers ok, the current level is the requested one and exactly one
\* backlight update is published, with the previous level as old, the
\* requested one as new and the smoothing parameters of the request; when the
\* call fails or the answer is not ok the current level is unchanged and no
\* backlight update is published
C10_SetBacklightLevel ==
    [][\A i \in 1..Len(SetAllCalls(last'.out)) :
          LET c == SetAllCalls(last'.out)[i]
          IN  IF c.res = "ok"
              THEN /\ state'.current_bl_pct = c.pct
                   /\ BlUpds(last'.out) =
                         <<[old |-> state.current_bl_pct, new |-> c.pct,
                            timeout |-> c.timeout, type |-> "BL_UPD", step |-> c.step,
                            smooth |-> c.smooth]>>
              ELSE /\ state'.current_bl_pct = state.current_bl_pct
                   /\ BlUpds(last'.out) = <<>>]_vars

\* the backlight service just refused a request for a level other than the
\* current one
C10_Witness ==
    /\ last.msg.type = "BL_REQ"
    /\ SetAllCalls(last.out) # <<>>
    /\ SetAllCalls(last.out)[1].res = "notok"
    /\ state.current_bl_pct # last.msg.new
    /\ BlUpds(last.out) = <<>>
----------------------------------------------------------------------------
\* The capture pipeline

\* the step handled the capture request at the head of the queue by running
\* do_capture
RanCapture ==
    /\ queue # <<>>
    /\ Head(queue).type = "CAPTURE_REQ"
    /\ last'.msg = Head(queue)
    /\ CaptureCalls(last'.out) # <<>>

\* C11: a run of do_capture sets the timer exactly when reset_timer is true,
\* and then once, to the effective timeout, whatever the capture and the
\* actuation gave; with reset_timer false the timer is left as it was
C11_RearmIffResetTimer ==
    [][RanCapture =>
          IF Head(queue).reset_timer
          THEN /\ last'.out.tops = <<[sec |-> Eff', nsec |-> 0]>>
               /\ rt'.timer = [sec |-> Eff', nsec |-> 0]
          ELSE /\ last'.out.tops = <<>>
               /\ rt' = rt]_vars

\* the capture just failed and the timer was rearmed all the same, with a
\* positive timeout
C11_Witness ==
    /\ last.msg.type = "CAPTURE_REQ"
    /\ CaptureCalls(last.out) # <<>>
    /\ CaptureCalls(last.out)[1].res < 0
    /\ last.msg.reset_timer
    /\ last.out.tops = <<[sec |-> Eff, nsec |-> 0]>>
    /\ Eff > 0

\* the reading the step's capture returned, less the screen's own light
Compensated == clamp(ext.capture - state.screen_comp, 100, 0)

\* C12: a run of do_capture calls the backlight service exactly when the
\* capture succeeded, capture_only is false and the compensated reading is at
\* or above the shutter threshold. A failed capture changes no state and
\* publishes nothing; a reading below the threshold is stored as the ambient
\* brightness and leaves the current level as it was
C12_ActuationIffGoodCapture ==
    [][RanCapture =>
          /\ SetAllCalls(last'.out) # <<>>
                <=> /\ ext.capture >= 0
                    /\ ~Head(queue).capture_only
                    /\ Compensated >= conf.shutter_threshold
          /\ ext.capture < 0 => (state' = state /\ last'.out.pubs = <<>>)
          /\ (ext.capture >= 0 /\ Compensated < conf.shutter_threshold)
                => /\ state'.ambient_br = ext.capture
                   /\ state'.current_bl_pct = state.current_bl_pct
                   /\ BlUpds(last'.out) = <<>>]_vars

\* a reading below the threshold was just stored without any actuation, in a
\* capture that was asked to actuate
C12_Witness ==
    /\ last.msg.type = "CAPTURE_REQ"
    /\ ~last.msg.capture_only
    /\ CaptureCalls(last.out) # <<>>
    /\ CaptureCalls(last.out)[1].res >= 0
    /\ CaptureCalls(last.out)[1].res < conf.shutter_threshold
    /\ state.ambient_br = CaptureCalls(last.out)[1].res
    /\ SetAllCalls(last.out) = <<>>
----------------------------------------------------------------------------
\* Sensor availability

AvailCalls(out) == SelectSeq(out.calls, LAMBDA c : c.member = "IsAvailable")

SensUpds(out) == SelectSeq(out.pubs, LAMBDA m : m.type = "SENS_UPD")

\* C13: once the one-time setup has run, the SENSOR reason is set exactly
\* while the stored availability is false; a step that queried the
\* availability leaves the queried value stored, and published one
\* availability change, from the other value to the queried one, or none
C13_SensorReasonTracksAvailability ==
    /\ Started => (HasBit(mod.paused_state, SENSOR) <=> ~state.sens_avail)
    /\ AvailCalls(last.out) # <<>> =>
          /\ state.sens_avail = AvailCalls(last.out)[1].res
          /\ Len(SensUpds(last.out)) <= 1
          /\ \A i \in 1..Len(SensUpds(last.out)) :
                /\ SensUpds(last.out)[i].new = state.sens_avail
                /\ SensUpds(last.out)[i].old = ~state.sens_avail
----------------------------------------------------------------------------
\* Autocalibration and lid reasons

LidInFlight == \E i \in 1..Len(queue) : queue[i].type = "LID_UPD"

\* the step that left WaitingInit
SetupStep == last.recv = "waiting_init" /\ Started

\* C14: once the one-time setup has run, the AUTOCALIB reason is set exactly
\* while autocalibration is configured off (at startup or by the latest
\* request applied), and, every lid change published having been handled,
\* the LID reason is set exactly while pausing on a closed lid is configured
\* and the lid is closed. A setup with autocalibration off asks the
\* backlight service for the full level before the first reason is set
C14_AutocalibAndLidReasons ==
    /\ Started => (HasBit(mod.paused_state, AUTOCALIB) <=> conf.no_auto_calib)
    /\ (Started /\ ~LidInFlight)
          => (HasBit(mod.paused_state, LID)
                <=> (conf.pause_on_lid_closed /\ state.lid_state))
    /\ (SetupStep /\ conf.no_auto_calib)
          => \E i \in DOMAIN last.out.calls :
                /\ last.out.calls[i].member = "SetAll"
                /\ last.out.calls[i].pct = FullPct
                /\ \A k \in 1..(i - 1) :
                      last.out.calls[k].member = "pause_mod"
                          => last.out.calls[k].after = UNPAUSED
                /\ \E j \in (i + 1)..Len(last.out.calls) :
                      /\ last.out.calls[j].member = "pause_mod"
                      /\ last.out.calls[j].type = AUTOCALIB

\* the setup has just run with autocalibration off and the lid closed, and
\* set both reasons
C14_Witness ==
    /\ SetupStep
    /\ mod.paused_state = AUTOCALIB + LID
    /\ SetAllCalls(last.out) # <<>>
----------------------------------------------------------------------------
\* Backlight changed from outside

\* C15: a Backlight.Changed signal stores the signalled level as the current
\* one and does nothing else: no call, no publication, no timer operation,
\* the same pause reasons, behaviour, timer, configuration and queue
C15_BlChangedOnlySetsLevel ==
    [][last'.recv = "on_bl_changed" =>
          /\ state' = [state EXCEPT !.current_bl_pct = last'.msg.pct]
          /\ last'.out = NoOut
          /\ mod' = mod
          /\ rt' = rt
          /\ conf' = conf
          /\ queue' = queue
          /\ fd_pending' = fd_pending]_vars

\* the signal was just taken in Paused, with the timer armed
C15_Witness ==
    /\ last.recv = "on_bl_changed"
    /\ Behaviour(mod) = "paused"
    /\ state.current_bl_pct = last.msg.pct
    /\ rt.timer.sec > 0

----------------------------------------------------------------------------
\* C16: the quit flag is set only when the initial connection to the bus
\* could not be established; once the connection is open, no failed or
\* undecodable brightness query, actuation or capture sets it.
C16_QuitOnlyOnConnectFailure == quit = 1 => ~bus

----------------------------------------------------------------------------
\* C17: the number of sample points stored for a power state never exceeds
\* the size of its row, whatever curve updates have been applied.
C17_PointsBounded == \A s \in AcStates : conf.num_points[s] <= MAX_SIZE_POINTS

----------------------------------------------------------------------------
\* Curve updates

\* a fresh CURVE_REQ is delivered to receive or receive_paused by this step
AppliedCurve ==
    /\ queue # <<>>
    /\ Head(queue).type = "CURVE_REQ"
    /\ last'.msg = Head(queue)
    /\ last'.recv \in {"receive", "paused"}
    /\ last'.fresh

\* the coefficients of s are the fit of the points stored in its row
FittedIn(st, cf, s) == st.fit_parameters[s] = Through3(cf.regression_points[s])

Fitted(s) == FittedIn(state, conf, s)

OtherAc(s) == IF s = ON_AC THEN ON_BATTERY ELSE ON_AC

\* C18: after init and after every applied curve update for power state s,
\* the coefficients of s are the fit of the points stored for s, and the
\* points, the count and the coefficients of the other power state are as
\* they were before the update.
C18_CurveConsistency ==
    /\ \A s \in AcStates : Fitted(s)
    /\ [][AppliedCurve =>
            LET s == Head(queue).state
                t == OtherAc(Head(queue).state)
            IN  /\ FittedIn(state', conf', s)
                /\ conf'.regression_points[t] = conf.regression_points[t]
                /\ conf'.num_points[t] = conf.num_points[t]
                /\ state'.fit_parameters[t] = state.fit_parameters[t]]_vars

----------------------------------------------------------------------------
\* Waiting for the readiness signals

\* the readiness bits of the topics delivered so far
OkOf(seen) ==
    (IF "UPOWER_UPD" \in seen THEN UPOWER_STARTED ELSE 0)
    + (IF "LID_UPD" \in seen THEN LID_STARTED ELSE 0)
    + (IF "DAYTIME_UPD" \in seen THEN DAYTIME_STARTED ELSE 0)

\* C19: a message handled while the module waits and that leaves it waiting
\* (fewer than three distinct readiness signals have arrived) is consumed
\* and does nothing but record its readiness bit: shared state,
\* configuration, timer and registrations are untouched, no call is made,
\* nothing is published, no timer is created or set.  While waiting the
\* pause-reason set is empty, no timer exists or is registered, no match is
\* installed, and the paused behaviour is never stacked on the waiting one.
C19_WaitingOnlyRecordsReadiness ==
    [][
       /\ (last'.recv = "waiting_init" /\ Behaviour(mod') = "waiting_init") =>
             /\ queue # <<>>
             /\ last'.msg = Head(queue)
             /\ queue' = Tail(queue)
             /\ state' = state
             /\ conf' = conf
             /\ rt' = rt
             /\ fd_pending' = fd_pending
             /\ last'.out = NoOut
             /\ mod' = [mod EXCEPT !.ok = OkOf(hist'.seen)]
             /\ mod'.ok # ALL_STARTED
       /\ Behaviour(mod') = "waiting_init" =>
             /\ mod'.recvs = <<"waiting_init">>
             /\ mod'.paused_state = UNPAUSED
             /\ mod'.bl_fd = -1
             /\ ~mod'.sens_slot /\ ~mod'.bl_slot
             /\ rt' = [registered |-> 0, matches |-> 0, timer |-> [sec |-> 0, nsec |-> 0],
                       readable |-> FALSE, created |-> 0]
       /\ "paused" \in {mod'.recvs[i] : i \in DOMAIN mod'.recvs} =>
             "waiting_init" \notin {mod'.recvs[i] : i \in DOMAIN mod'.recvs}
    ]_vars

\* C19 witness: a backlight request was handled and dropped while only two
\* readiness signals had arrived
C19_Witness ==
    /\ Behaviour(mod) = "waiting_init"
    /\ last.recv = "waiting_init"
    /\ last.msg.type = "BL_REQ"
    /\ Cardinality(hist.seen) = 2
    /\ last.out = NoOut
    /\ queue = <<>>

----------------------------------------------------------------------------
\* The capture loop

\* this step delivers a timer event to receive
FdHandled == fd_pending > 0 /\ last'.recv = "receive" /\ last'.msg = FdMsg

\* this step delivers to receive the request a timer event publishes, no
\* newer capture request being outstanding
OwnCaptureHandled ==
    /\ queue # <<>>
    /\ Head(queue) = capture_req
    /\ last'.recv = "receive"
    /\ last'.msg = capture_req
    /\ last'.fresh

\* a timer event has just been handled by receive
FdDone == last.recv = "receive" /\ last.msg = FdMsg

\* the request of a timer event has just been handled by receive: one
\* capture was made and the timer is set to the effective timeout
OwnCaptureDone ==
    /\ last.recv = "receive"
    /\ last.msg = capture_req
    /\ last.fresh
    /\ Len(CaptureCalls(last.out)) = 1
    /\ rt.timer = [sec |-> Eff, nsec |-> 0]

\* Active, with a positive effective timeout, and the capture request
\* handled last (if any) was not dropped as superseded
StaysActive ==
    /\ Behaviour(mod) = "receive"
    /\ Eff > 0
    /\ ~(last.msg.type = "CAPTURE_REQ" /\ ~last.fresh)

\* C20: in Active a timer event publishes exactly one capture request, with
\* reset_timer true and capture_only false, and does nothing else; handling
\* that request makes exactly one capture and ends by setting the timer to
\* the effective timeout.  Hence, for as long as the module stays Active
\* with a positive effective timeout and no capture request is dropped as
\* superseded, every timer event is followed by its capture with the timer
\* set again, and every such capture by the next timer event.
C20_CapturesRecur ==
    /\ [][
          /\ FdHandled =>
                /\ last'.out = [calls |-> <<>>,
                                pubs |-> <<[reset_timer |-> TRUE, type |-> "CAPTURE_REQ",
                                           capture_only |-> FALSE]>>,
                                tops |-> <<>>]
                /\ queue' = Append(queue, last'.out.pubs[1])
                /\ state' = state /\ conf' = conf /\ mod' = mod
          /\ OwnCaptureHandled =>
                /\ Len(CaptureCalls(last'.out)) = 1
                /\ last'.out.tops = <<[sec |-> Eff', nsec |-> 0]>>
                /\ rt'.timer = [sec |-> Eff', nsec |-> 0]
       ]_vars
    /\ ((FdDone /\ StaysActive) ~> (OwnCaptureDone \/ ~StaysActive))
    /\ ((OwnCaptureDone /\ StaysActive) ~> (FdDone \/ ~StaysActive))

\* C20 witness: the request of a timer event has been handled, the capture
\* made and the timer set to the positive effective timeout
C20_Witness ==
    /\ last.recv = "receive"
    /\ last.msg = capture_req
    /\ last.fresh
    /\ Len(CaptureCalls(last.out)) = 1
    /\ Eff > 0
    /\ rt.timer = [sec |-> Eff, nsec |-> 0]

----------------------------------------------------------------------------
\* Timeout-table updates

\* this step delivers a BL_TO_REQ with no newer one behind it
ToReqHandled ==
    /\ queue # <<>>
    /\ Head(queue).type = "BL_TO_REQ"
    /\ last'.msg = Head(queue)
    /\ last'.recv \in {"receive", "paused"}
    /\ last'.fresh

\* C21: a timeout update whose daytime is not a column of the table (DAY to
\* IN_EVENT) changes neither the table nor the timer; one whose daytime is a
\* column writes that entry and no other, and sets the timer only if it
\* targets the current power state and the effective timeout is not what it
\* was; when the effective timeout changes the timer is set.
C21_TimeoutUpdate ==
    [][ToReqHandled =>
          LET up == Head(queue)
          IN  /\ state' = state
              /\ ~(up.daytime >= DAY /\ up.daytime <= IN_EVENT) =>
                    /\ conf' = conf
                    /\ rt' = rt
                    /\ last'.out = NoOut
              /\ (up.daytime >= DAY /\ up.daytime <= IN_EVENT) =>
                    /\ conf' = [conf EXCEPT
                                  !.timeout[TimeoutIndex(up.state, up.daytime)] = up.new]
                    /\ (rt'.timer # rt.timer \/ last'.out.tops # <<>>) =>
                          (up.state = state.ac_state /\ Eff' # Eff)
                    /\ Eff' # Eff => last'.out.tops # <<>>
    ]_vars

\* C21 witness: during an event window the DAY entry of the current power
\* state was written and the timer was left alone
C21_Witness ==
    /\ last.recv \in {"receive", "paused"}
    /\ last.msg.type = "BL_TO_REQ"
    /\ last.fresh
    /\ last.msg.daytime = DAY
    /\ last.msg.state = state.ac_state
    /\ state.in_event
    /\ state.day_time = DAY
    /\ Entry(state.ac_state, DAY) = last.msg.new
    /\ \E i \in 1..Len(last.out.calls) :
          /\ last.out.calls[i].member = "reset_timer"
          /\ last.out.calls[i].old = last.out.calls[i].new
    /\ last.out.tops = <<>>

----------------------------------------------------------------------------
\* The display reason

\* a display change has been published and is not handled yet
DisplayInFlight == \E i \in 1..Len(queue) : queue[i].type = "DISPLAY_UPD"

\* C22: once the module has left WaitingInit, and every display change
\* published has been handled, the DISPLAY reason is set exactly when the
\* shared display_state says the display is dimmed, also when it was dimmed
\* while the module was waiting; so the module is not Active with the
\* display dimmed.
C22_DisplayReasonTracksDisplay ==
    (Started /\ ~DisplayInFlight) =>
        /\ HasBit(mod.paused_state, DISPLAY) <=> state.display_state
        /\ state.display_state => Behaviour(mod) = "paused"

====
